---- MODULE Spec2Model ----
(***************************************************************************)
(* Model of src/audio_handler.py: the per-connection coroutine             *)
(* audio_handler (silence-gated relay, session buffer, teardown and WAV    *)
(* write) and the classifier is_chunk_silent_max_abs.                      *)
(*                                                                         *)
(* Representation choices.                                                 *)
(*  - A Python bytes value is a run-length encoded byte string: a sequence *)
(*    of runs [byte, end], ends increasing, adjacent runs of different     *)
(*    bytes (end is the index just past the run).                          *)
(*    Every byte string has exactly one such form, so equality of the      *)
(*    model values is equality of the byte strings.                        *)
(*  - A duration in seconds is kept as its numerator over BYTES_PER_SECOND *)
(*    (len(message) / BYTES_PER_SECOND has numerator len(message)), so the *)
(*    accumulator arithmetic is exact.  The chunk lengths used here are    *)
(*    multiples of 125 bytes, for which the float quotients and their sums *)
(*    are exact in IEEE double as well.                                    *)
(*  - One action is one stretch of the coroutine between two suspension    *)
(*    points (async for / await websocket.send); the finally block is      *)
(*    split at line 141 so that the order "registry removal, then write"   *)
(*    is visible in the state.                                             *)
(*  - str(client_address) and the file name are sequences of characters,   *)
(*    so that the replacements of line 76 act on them; the strftime text   *)
(*    is two fields, the time down to the second and the microseconds.     *)
(*  - A failing write is wave.open raising: the directory stays as it was. *)
(***************************************************************************)
EXTENDS Integers, Sequences, FiniteSets, TLC

\* ---- bounds of the model ----
NumConns == 2
MaxFrames == 4        \* frames delivered while a single handler has started
MaxSharedFrames == 2  \* frames delivered once several handlers have started

\* ---- module-level settings, src/audio_handler.py:10-20 ----
SAMPLE_RATE == 16000
CHANNELS == 1
SAMPLE_WIDTH == 2
BYTES_PER_SAMPLE == CHANNELS * SAMPLE_WIDTH
BYTES_PER_SECOND == SAMPLE_RATE * BYTES_PER_SAMPLE
SILENCE_THRESHOLD == 800
MAX_SILENCE_SECONDS == 1

Conn == 1..NumConns

\* ---- bytes values ----
\* A run holds one byte value and the index just past its last byte.
Run(b, e) == [byte |-> b, end |-> e]

\* n copies of the byte b (bytes([b]) * n)
Repeat(b, n) == IF n = 0 THEN <<>> ELSE <<Run(b, n)>>

\* len(s)
BytesLen(s) == IF s = <<>> THEN 0 ELSE s[Len(s)].end

\* s[i], 0-based as in Python
ByteAt(s, i) ==
    LET k == CHOOSE j \in 1..Len(s) :
                 /\ i < s[j].end
                 /\ (j = 1 \/ s[j - 1].end <= i)
    IN  s[k].byte

\* a + b on bytes
Concat(a, b) ==
    IF a = <<>> THEN b
    ELSE IF b = <<>> THEN a
    ELSE LET la == BytesLen(a)
             sb == [j \in 1..Len(b) |-> Run(b[j].byte, b[j].end + la)]
         IN  IF a[Len(a)].byte = b[1].byte
             THEN SubSeq(a, 1, Len(a) - 1) \o sb
             ELSE a \o sb

\* b''.join(chunks)
RECURSIVE Join(_)
Join(chunks) ==
    IF chunks = <<>> THEN <<>>
    ELSE Concat(chunks[1], Join(Tail(chunks)))

Abs(n) == IF n < 0 THEN -n ELSE n

SetMax(S) == CHOOSE m \in S : \A n \in S : n <= m

\* variant: the two bytes read as offset binary, not as two's complement
unpack_h_offset(lo, hi) == lo + 256 * hi - 32768

\* struct.unpack('<h', two bytes)[0]: little-endian signed 16-bit
unpack_h(lo, hi) ==
    LET u == lo + 256 * hi
    IN  IF u >= 32768 THEN u - 65536 ELSE u

\* sample_val of the i-th sample of the chunk (lines 38-40)
sample_val(pcm_chunk_bytes, i) ==
    unpack_h(ByteAt(pcm_chunk_bytes, i * SAMPLE_WIDTH),
             ByteAt(pcm_chunk_bytes, i * SAMPLE_WIDTH + 1))

\* variant: a maximum equal to the threshold still counts as silent
is_chunk_silent_max_abs_inclusive(pcm_chunk_bytes, threshold) ==
    IF pcm_chunk_bytes = <<>> THEN TRUE
    ELSE LET num_samples == BytesLen(pcm_chunk_bytes) \div SAMPLE_WIDTH
             max_amplitude ==
                 SetMax({0} \cup {Abs(sample_val(pcm_chunk_bytes, i)) :
                                     i \in 0..(num_samples - 1)})
         IN  max_amplitude <= threshold

\* lines 27-45
is_chunk_silent_max_abs(pcm_chunk_bytes, threshold) ==
    IF pcm_chunk_bytes = <<>> THEN TRUE
    ELSE LET num_samples == BytesLen(pcm_chunk_bytes) \div SAMPLE_WIDTH
             max_amplitude ==
                 SetMax({0} \cup {Abs(sample_val(pcm_chunk_bytes, i)) :
                                     i \in 0..(num_samples - 1)})
         IN  max_amplitude < threshold

\* ---- inbound frames the transport may deliver ----
HalfSecond == BYTES_PER_SECOND \div 2

QuietHalf == Repeat(1, HalfSecond)            \* samples 0x0101 = 257
LoudHalf == Repeat(8, HalfSecond)             \* samples 0x0808 = 2056
ZeroSecond == Repeat(0, BYTES_PER_SECOND)     \* one second of zero samples

Chunks == {QuietHalf, LoudHalf, ZeroSecond}
Texts == {"hello"}

BinaryFrame(data) == [kind |-> "bytes", data |-> data]
TextFrame(data) == [kind |-> "str", data |-> data]

\* is_silent_now (line 99) for every chunk the transport may deliver
Classified ==
    {<<chunk, is_chunk_silent_max_abs(chunk, SILENCE_THRESHOLD)>> : chunk \in Chunks}

is_silent_now(message) == <<message, TRUE>> \in Classified

\* numerator of len(message) / BYTES_PER_SECOND (line 95)
chunk_duration_seconds(message) == BytesLen(message)

\* numerator of MAX_SILENCE_SECONDS over BYTES_PER_SECOND
MaxSilence == MAX_SILENCE_SECONDS * BYTES_PER_SECOND

\* ---- state ----
VARIABLES
    pc,                  \* where each handler coroutine stands
    CONNECTIONS,         \* the module-level registry (line 22)
    pcm_data_chunks,     \* per handler: the session buffer (line 83)
    current_silence_accumulated_duration,   \* per handler (line 86)
    relaying_audio,      \* per handler (line 87)
    message,             \* per handler: the frame being sent at line 121
    inbound,             \* per connection: frames delivered by the transport
    outbound,            \* per connection: frames the server has sent
    history,             \* per handler: one record per processed binary frame
    wav,                 \* per handler: the wave.open/writeframes attempts
    log,                 \* per handler: the lines it printed
    client_address,      \* per handler: websocket.remote_address (line 75)
    timestamp,           \* per handler: datetime.now() at line 77
    filename,            \* per handler: the output path (line 78)
    fs,                  \* the files under OUTPUT_DIR, by path
    server,              \* main: running, stopping or exited, and the handlers
                         \* that were in flight when it was interrupted
    probe                \* a classifier call on its own: inputs and result

vars == <<pc, CONNECTIONS, pcm_data_chunks, current_silence_accumulated_duration,
          relaying_audio, message, inbound, outbound, history, wav, log,
          client_address, timestamp, filename, fs, server, probe>>

\* no send is pending: a value no chunk equals (a run of no byte, ending at 0)
NoMessage == <<Run(-1, 0)>>
NoAddress == [host |-> <<>>, port |-> <<>>]
NoStamp == [second |-> "", micro |-> ""]
NoProbe == [raw |-> <<>>, threshold |-> SILENCE_THRESHOLD,
            called |-> FALSE, result |-> FALSE]

Init ==
    /\ pc = [c \in Conn |-> "idle"]
    /\ CONNECTIONS = {}
    /\ pcm_data_chunks = [c \in Conn |-> <<>>]
    /\ current_silence_accumulated_duration = [c \in Conn |-> 0]
    /\ relaying_audio = [c \in Conn |-> TRUE]
    /\ message = [c \in Conn |-> NoMessage]
    /\ inbound = [c \in Conn |-> <<>>]
    /\ outbound = [c \in Conn |-> <<>>]
    /\ history = [c \in Conn |-> <<>>]
    /\ wav = [c \in Conn |-> <<>>]
    /\ log = [c \in Conn |-> <<>>]
    /\ client_address = [c \in Conn |-> NoAddress]
    /\ timestamp = [c \in Conn |-> NoStamp]
    /\ filename = [c \in Conn |-> <<>>]
    /\ fs = <<>>
    /\ server = [state |-> "running", in_flight |-> {}]
    /\ probe = NoProbe

RECURSIVE SumLen(_)
SumLen(f) == IF f = <<>> THEN 0 ELSE Len(f[1]) + SumLen(Tail(f))

\* frames delivered so far, over all connections
Delivered == SumLen([i \in 1..NumConns |-> inbound[i]])

Started == {c \in Conn : pc[c] # "idle"}

\* the transport delivers a bounded number of frames
MayDeliver ==
    Delivered < (IF Cardinality(Started) <= 1 THEN MaxFrames ELSE MaxSharedFrames)

\* a further connection is accepted only while it may still be sent a frame
MayAccept == Started = {} \/ Delivered < MaxSharedFrames

\* ---- the silence gate, lines 102-116 ----
\* variant: the pause is announced without looking at relaying_audio
GateSilent_repeatPause(acc, relaying, duration) ==
    LET acc2 == acc + duration
        pause == acc2 >= MaxSilence
    IN  [acc |-> acc2,
         relaying |-> IF pause THEN FALSE ELSE relaying,
         edge |-> IF pause THEN "pause" ELSE "none"]

\* variant: silence is no longer accumulated once the relay is paused
GateSilent_frozen(acc, relaying, duration) ==
    LET acc2 == IF relaying THEN acc + duration ELSE acc
        pause == acc2 >= MaxSilence /\ relaying
    IN  [acc |-> acc2,
         relaying |-> IF pause THEN FALSE ELSE relaying,
         edge |-> IF pause THEN "pause" ELSE "none"]

\* variant: line 104 compares the chunk's own duration
GateSilent_perChunk(acc, relaying, duration) ==
    LET acc2 == acc + duration
        pause == duration >= MaxSilence /\ relaying
    IN  [acc |-> acc2,
         relaying |-> IF pause THEN FALSE ELSE relaying,
         edge |-> IF pause THEN "pause" ELSE "none"]

\* variant: the comparison at line 104 is strict
GateSilent_strict(acc, relaying, duration) ==
    LET acc2 == acc + duration
        pause == acc2 > MaxSilence /\ relaying
    IN  [acc |-> acc2,
         relaying |-> IF pause THEN FALSE ELSE relaying,
         edge |-> IF pause THEN "pause" ELSE "none"]

\* is_silent_now branch, lines 103-107
GateSilent(acc, relaying, duration) ==
    LET acc2 == acc + duration
        pause == acc2 >= MaxSilence /\ relaying
    IN  [acc |-> acc2,
         relaying |-> IF pause THEN FALSE ELSE relaying,
         edge |-> IF pause THEN "pause" ELSE "none"]

\* variant: speech resumes the relay but keeps the accumulated silence
GateSpeech_noReset(acc, relaying) ==
    [acc |-> acc,
     relaying |-> TRUE,
     edge |-> IF ~relaying THEN "resume" ELSE "none"]

\* variant: speech resets the accumulator but does not resume the relay
GateSpeech_noResume(acc, relaying) ==
    [acc |-> 0, relaying |-> relaying, edge |-> "none"]

\* else branch, lines 111-116
GateSpeech(acc, relaying) ==
    [acc |-> 0,
     relaying |-> TRUE,
     edge |-> IF ~relaying THEN "resume" ELSE "none"]

GateUpdate(acc, relaying, silent, duration) ==
    IF silent THEN GateSilent(acc, relaying, duration)
    ELSE GateSpeech(acc, relaying)

EdgeLog(edge) == IF edge = "none" THEN <<>> ELSE <<edge>>

\* variant: a chunk equal to the previous one is not stored again
AppendChunk_dedup(chunks, chunk) ==
    IF chunks # <<>> /\ chunks[Len(chunks)] = chunk THEN chunks
    ELSE Append(chunks, chunk)

\* line 93: pcm_data_chunks.append(message)
AppendChunk(chunks, chunk) == Append(chunks, chunk)

\* variant: the registry is rebound to the new connection alone
Register_reset(registry, c) == {c}

\* line 81: CONNECTIONS.add(websocket)
Register(registry, c) == registry \cup {c}

\* variant: the connection stays registered
Unregister_keep(registry, c) == registry

\* lines 137-138: remove the websocket if it is registered
Unregister(registry, c) == IF c \in registry THEN registry \ {c} ELSE registry

\* variant: the write is not guarded by the buffer being non-empty
HasAudio_always(chunks) == TRUE

\* line 141: if pcm_data_chunks
HasAudio(chunks) == chunks # <<>>

\* ---- the output path, lines 75-78 ----
OUTPUT_DIR == "received_audio"

\* str(client_address) for the (host, port) tuple of an IPv4 peer, the
\* server listening on 0.0.0.0 (line 157): ('host', port)
StrAddress(address) ==
    <<"(", "'">> \o address.host \o <<"'", ",", " ">> \o address.port \o <<")">>

\* text.replace(old, new) for a single character
Replace(text, old, new) ==
    [i \in 1..Len(text) |-> IF text[i] = old THEN new ELSE text[i]]

\* text.replace(old, "") for a single character
Remove(text, old) == SelectSeq(text, LAMBDA ch : ch # old)

\* line 76
sane_client_address(address) ==
    Remove(Remove(Remove(Replace(StrAddress(address), ":", "_"), "("), ")"), ",")

\* line 77: strftime("%Y%m%d_%H%M%S_%f"), the date and time down to the
\* second as one field, the microseconds as the other
StrfTime(now) == <<now.second, "_", now.micro>>

\* line 78
OutputPath(address, now) ==
    <<OUTPUT_DIR, "/", "audio_">> \o sane_client_address(address)
        \o <<"_">> \o StrfTime(now) \o <<".wav">>

\* the peers and clock readings of the connections
LoopbackHost == <<"1", "2", "7", ".", "0", ".", "0", ".", "1">>

Digits == <<"0", "1", "2", "3", "4", "5", "6", "7", "8", "9">>

\* connections that are open together come from different ports
PeerOf(c) == [host |-> LoopbackHost, port |-> <<"5", "0", "0", Digits[c + 1]>>]

Epoch == [second |-> "20240101_120000", micro |-> "000001"]

\* ---- the handler, one action per stretch between suspension points ----
\* lines 75-87: the handler starts, registers, and reaches the async for
Connect(c, address, now) ==
    /\ pc[c] = "idle"
    /\ server.state = "running"
    /\ MayAccept
    /\ client_address' = [client_address EXCEPT ![c] = address]
    /\ timestamp' = [timestamp EXCEPT ![c] = now]
    /\ filename' = [filename EXCEPT ![c] = OutputPath(address, now)]
    /\ CONNECTIONS' = Register(CONNECTIONS, c)
    /\ pcm_data_chunks' = [pcm_data_chunks EXCEPT ![c] = <<>>]
    /\ current_silence_accumulated_duration' =
           [current_silence_accumulated_duration EXCEPT ![c] = 0]
    /\ relaying_audio' = [relaying_audio EXCEPT ![c] = TRUE]
    /\ log' = [log EXCEPT ![c] = Append(@, "connected")]
    /\ pc' = [pc EXCEPT ![c] = "recv"]
    /\ UNCHANGED <<message, inbound, outbound, history, wav, fs, server, probe>>

\* lines 90-121: a binary frame arrives and is processed up to the send
RecvBinary(c, chunk) ==
    /\ pc[c] = "recv"
    /\ MayDeliver
    /\ LET silent == is_silent_now(chunk)
           g == GateUpdate(current_silence_accumulated_duration[c],
                           relaying_audio[c], silent,
                           chunk_duration_seconds(chunk))
       IN  /\ inbound' = [inbound EXCEPT ![c] = Append(@, BinaryFrame(chunk))]
           /\ pcm_data_chunks' = [pcm_data_chunks EXCEPT ![c] = AppendChunk(@, chunk)]
           /\ current_silence_accumulated_duration' =
                  [current_silence_accumulated_duration EXCEPT ![c] = g.acc]
           /\ relaying_audio' = [relaying_audio EXCEPT ![c] = g.relaying]
           /\ history' = [history EXCEPT ![c] =
                  Append(@, [chunk |-> chunk, silent |-> silent, acc |-> g.acc,
                             relaying |-> g.relaying, edge |-> g.edge])]
           /\ log' = [log EXCEPT ![c] = @ \o EdgeLog(g.edge)]
           /\ IF g.relaying
              THEN /\ pc' = [pc EXCEPT ![c] = "send"]
                   /\ message' = [message EXCEPT ![c] = chunk]
              ELSE /\ pc' = pc
                   /\ message' = message
    /\ UNCHANGED <<CONNECTIONS, outbound, wav,
                   client_address, timestamp, filename, fs, server, probe>>

\* variant: a text frame ends the run of silence
RecvText_reset(c, text) ==
    /\ pc[c] = "recv"
    /\ MayDeliver
    /\ inbound' = [inbound EXCEPT ![c] = Append(@, TextFrame(text))]
    /\ log' = [log EXCEPT ![c] = Append(@, "text")]
    /\ current_silence_accumulated_duration' =
           [current_silence_accumulated_duration EXCEPT ![c] = 0]
    /\ UNCHANGED <<pc, CONNECTIONS, pcm_data_chunks, relaying_audio,
                   message, outbound, history, wav,
                   client_address, timestamp, filename, fs, server, probe>>

\* lines 125-126: a text frame arrives
RecvText(c, text) ==
    /\ pc[c] = "recv"
    /\ MayDeliver
    /\ inbound' = [inbound EXCEPT ![c] = Append(@, TextFrame(text))]
    /\ log' = [log EXCEPT ![c] = Append(@, "text")]
    /\ UNCHANGED <<pc, CONNECTIONS, pcm_data_chunks,
                   current_silence_accumulated_duration, relaying_audio,
                   message, outbound, history, wav,
                   client_address, timestamp, filename, fs, server, probe>>

\* variant: the chunk is sent to every registered connection
SendDone_broadcast(c) ==
    /\ pc[c] = "send"
    /\ outbound' = [d \in Conn |-> IF d \in CONNECTIONS
                                    THEN Append(outbound[d], message[c])
                                    ELSE outbound[d]]
    /\ message' = [message EXCEPT ![c] = NoMessage]
    /\ pc' = [pc EXCEPT ![c] = "recv"]
    /\ UNCHANGED <<CONNECTIONS, pcm_data_chunks,
                   current_silence_accumulated_duration, relaying_audio,
                   inbound, history, wav, log,
                   client_address, timestamp, filename, fs, server, probe>>

\* line 121: await websocket.send(message) returns
SendDone(c) ==
    /\ pc[c] = "send"
    /\ outbound' = [outbound EXCEPT ![c] = Append(@, message[c])]
    /\ message' = [message EXCEPT ![c] = NoMessage]
    /\ pc' = [pc EXCEPT ![c] = "recv"]
    /\ UNCHANGED <<CONNECTIONS, pcm_data_chunks,
                   current_silence_accumulated_duration, relaying_audio,
                   inbound, history, wav, log,
                   client_address, timestamp, filename, fs, server, probe>>

\* lines 130-139: the matching except clause, then the registry removal
ExceptLog(cause) ==
    IF cause = "ConnectionClosedOK" THEN <<"disconnected normally">>
    ELSE IF cause = "ConnectionClosedError" THEN <<"disconnected with error">>
    ELSE IF cause = "Exception" THEN <<"error occurred">>
    ELSE <<>>

\* variant: the write is skipped when the loop ends with a generic exception
Leave_skipWrite(c, cause) ==
    /\ CONNECTIONS' = Unregister(CONNECTIONS, c)
    /\ log' = [log EXCEPT ![c] = @ \o ExceptLog(cause) \o <<"removed">>]
    /\ message' = [message EXCEPT ![c] = NoMessage]
    /\ pc' = [pc EXCEPT ![c] = IF cause = "Exception" THEN "closed" ELSE "closing"]
    /\ UNCHANGED <<pcm_data_chunks, current_silence_accumulated_duration,
                   relaying_audio, inbound, outbound, history, wav,
                   client_address, timestamp, filename, fs, server, probe>>

Leave(c, cause) ==
    /\ CONNECTIONS' = Unregister(CONNECTIONS, c)
    /\ log' = [log EXCEPT ![c] = @ \o ExceptLog(cause) \o <<"removed">>]
    /\ message' = [message EXCEPT ![c] = NoMessage]
    /\ pc' = [pc EXCEPT ![c] = "closing"]
    /\ UNCHANGED <<pcm_data_chunks, current_silence_accumulated_duration,
                   relaying_audio, inbound, outbound, history, wav,
                   client_address, timestamp, filename, fs, server, probe>>

RecvCauses == {"end", "ConnectionClosedError"}
SendCauses == {"ConnectionClosedOK", "Exception"}

\* line 90: the async for ends (clean close) or raises (error close)
RecvEnd(c, cause) ==
    /\ pc[c] = "recv"
    /\ Leave(c, cause)

\* line 121: await websocket.send(message) raises
SendRaise(c, cause) ==
    /\ pc[c] = "send"
    /\ Leave(c, cause)

\* open(path, 'wb') and a completed write: the path now holds this file alone
WriteFile(files, path, file) ==
    [p \in (DOMAIN files) \cup {path} |-> IF p = path THEN file ELSE files[p]]

\* variant: only the last chunk is written
WavFile_lastOnly(chunks) ==
    [nchannels |-> CHANNELS, sampwidth |-> SAMPLE_WIDTH,
     framerate |-> SAMPLE_RATE, frames |-> chunks[Len(chunks)]]

\* lines 144-148: the file the wave module is asked to write
WavFile(chunks) ==
    [nchannels |-> CHANNELS, sampwidth |-> SAMPLE_WIDTH,
     framerate |-> SAMPLE_RATE, frames |-> Join(chunks)]

\* variant: a failed write leaves the handler in its teardown, to write again
WriteWav_retry(c, ok) ==
    /\ pc[c] = "closing"
    /\ IF HasAudio(pcm_data_chunks[c])
       THEN /\ wav' = [wav EXCEPT ![c] =
                   Append(@, [file |-> WavFile(pcm_data_chunks[c]), ok |-> ok])]
            /\ fs' = IF ok
                     THEN WriteFile(fs, filename[c], WavFile(pcm_data_chunks[c]))
                     ELSE fs
            /\ log' = [log EXCEPT ![c] =
                   @ \o <<"writing", IF ok THEN "saved" ELSE "error writing">>]
            /\ pc' = [pc EXCEPT ![c] =
                   IF ok \/ Len(wav[c]) >= 1 THEN "closed" ELSE "closing"]
       ELSE /\ ok
            /\ wav' = wav
            /\ fs' = fs
            /\ log' = [log EXCEPT ![c] = Append(@, "no audio")]
            /\ pc' = [pc EXCEPT ![c] = "closed"]
    /\ UNCHANGED <<CONNECTIONS, pcm_data_chunks,
                   current_silence_accumulated_duration, relaying_audio,
                   message, inbound, outbound, history,
                   client_address, timestamp, filename, server, probe>>

\* lines 141-153: the write, if anything was buffered
WriteWav(c, ok) ==
    /\ pc[c] = "closing"
    /\ IF HasAudio(pcm_data_chunks[c])
       THEN /\ wav' = [wav EXCEPT ![c] =
                   Append(@, [file |-> WavFile(pcm_data_chunks[c]), ok |-> ok])]
            /\ fs' = IF ok
                     THEN WriteFile(fs, filename[c], WavFile(pcm_data_chunks[c]))
                     ELSE fs
            /\ log' = [log EXCEPT ![c] =
                   @ \o <<"writing", IF ok THEN "saved" ELSE "error writing">>]
       ELSE /\ ok
            /\ wav' = wav
            /\ fs' = fs
            /\ log' = [log EXCEPT ![c] = Append(@, "no audio")]
    /\ pc' = [pc EXCEPT ![c] = "closed"]
    /\ UNCHANGED <<CONNECTIONS, pcm_data_chunks,
                   current_silence_accumulated_duration, relaying_audio,
                   message, inbound, outbound, history,
                   client_address, timestamp, filename, server, probe>>

Next ==
    \E c \in Conn :
        \/ Connect(c, PeerOf(c), Epoch)
        \/ \E chunk \in Chunks : RecvBinary(c, chunk)
        \/ \E text \in Texts : RecvText(c, text)
        \/ SendDone(c)
        \/ \E cause \in RecvCauses : RecvEnd(c, cause)
        \/ \E cause \in SendCauses : SendRaise(c, cause)
        \/ \E ok \in BOOLEAN : WriteWav(c, ok)

Spec == Init /\ [][Next]_vars

\* ---- properties ----
\* the payloads of the binary frames among the delivered frames, in order
BinaryData(frames) ==
    LET bin == SelectSeq(frames, LAMBDA f : f.kind = "bytes")
    IN  [i \in 1..Len(bin) |-> bin[i].data]

Printed(c, line) == \E i \in 1..Len(log[c]) : log[c][i] = line

\* the handler left the loop because websocket.send raised
SendFailed(c) == Printed(c, "disconnected normally") \/ Printed(c, "error occurred")

Front(q) == SubSeq(q, 1, Len(q) - 1)

\* C1: the session buffer is exactly the binary frames delivered so far, in
\* arrival order and unmodified, whatever was relayed and however a send ended.
C1_BufferIsReceived ==
    \A c \in Conn : pcm_data_chunks[c] = BinaryData(inbound[c])

\* a session whose last relay failed, with a withheld chunk and a text frame
C1_Witness ==
    \E c \in Conn :
        /\ SendFailed(c)
        /\ Len(pcm_data_chunks[c]) >= 2
        /\ \E i \in 1..Len(history[c]) : ~history[c][i].relaying
        /\ \E i \in 1..Len(inbound[c]) : inbound[c][i].kind = "str"

\* a processed chunk is due for relay unless it was silent with the gate paused
Relayable(h) == ~(h.silent /\ ~h.relaying)

ExpectedOutbound(c) ==
    LET due == SelectSeq(history[c], Relayable)
    IN  [i \in 1..Len(due) |-> due[i].chunk]

C3_FirstChunkAlwaysRelayed ==
    \A c \in Conn :
        history[c] # <<>> =>
            /\ history[c][1].relaying
            /\ outbound[c] # <<>> => outbound[c][1] = history[c][1].chunk

\* C3 amended: the first binary chunk is relayed unless it is silent and lasts
\* MAX_SILENCE_SECONDS or longer; such a chunk pauses the gate and is withheld.
C3_FirstChunkRelayedUnlessLongSilence ==
    \A c \in Conn :
        history[c] # <<>> =>
            LET h == history[c][1]
                long == chunk_duration_seconds(h.chunk) >= MaxSilence
            IN  /\ h.relaying <=> ~(h.silent /\ long)
                /\ h.relaying /\ outbound[c] # <<>> => outbound[c][1] = h.chunk
                /\ h.relaying /\ Len(history[c]) >= 2 => outbound[c] # <<>>
                /\ ~h.relaying /\ Len(history[c]) = 1 => outbound[c] = <<>>

\* one session whose silent short first chunk went out, another whose silent
\* one-second first chunk was withheld
C3_Witness ==
    \E c, d \in Conn :
        /\ history[c] # <<>> /\ history[c][1].silent
        /\ outbound[c] = <<history[c][1].chunk>>
        /\ history[d] # <<>> /\ history[d][1].silent
        /\ ~history[d][1].relaying /\ outbound[d] = <<>> /\ pc[d] = "recv"

RECURSIVE SumBytes(_)
SumBytes(chunks) ==
    IF chunks = <<>> THEN 0 ELSE BytesLen(chunks[1]) + SumBytes(Tail(chunks))

\* frames holds the chunks one after the other: the lengths add up and every
\* chunk's first and last byte stand at the chunk's offsets
IsConcatenation(frames, chunks) ==
    /\ BytesLen(frames) = SumBytes(chunks)
    /\ \A k \in 1..Len(chunks) :
           LET from == SumBytes(SubSeq(chunks, 1, k - 1))
               size == BytesLen(chunks[k])
           IN  size > 0 =>
                   /\ ByteAt(frames, from) = ByteAt(chunks[k], 0)
                   /\ ByteAt(frames, from + size - 1) = ByteAt(chunks[k], size - 1)

\* C4: a session that received a binary frame attempts the write exactly once,
\* only at teardown, with the concatenation of all its binary chunks in
\* receipt order, withheld chunks included.
C4_WriteOnceAtTeardown ==
    \A c \in Conn :
        LET received == BinaryData(inbound[c])
        IN  /\ pc[c] # "closed" => wav[c] = <<>>
            /\ pc[c] = "closed" /\ received # <<>> =>
                   /\ Len(wav[c]) = 1
                   /\ wav[c][1].file.frames = Join(received)
                   /\ IsConcatenation(wav[c][1].file.frames, received)

\* a closed session with several chunks, one of them withheld
C4_Witness ==
    \E c \in Conn :
        /\ pc[c] = "closed"
        /\ Len(wav[c]) = 1
        /\ Len(history[c]) >= 3
        /\ \E i \in 1..Len(history[c]) : ~history[c][i].relaying
        /\ \E i \in 1..Len(history[c]) : history[c][i].relaying

Live == {"recv", "send"}
Ended == {"closing", "closed"}

C5_Teardown ==
    \A c \in Conn :
        /\ pc[c] \in Ended => c \notin CONNECTIONS /\ Printed(c, "removed")
        /\ pc[c] = "closed" /\ pcm_data_chunks[c] # <<>> =>
               /\ Len(wav[c]) = 1
               /\ wav[c][1].file.frames = Join(pcm_data_chunks[c])

C5_Step ==
    \A c \in Conn :
        /\ pc[c] \in Live /\ pc'[c] \notin Live =>
               /\ pc'[c] = "closing"
               /\ c \notin CONNECTIONS'
               /\ pcm_data_chunks'[c] = pcm_data_chunks[c]
        /\ pc[c] \in Ended =>
               /\ pc'[c] \in {pc[c], "closed"}
               /\ inbound'[c] = inbound[c]
               /\ outbound'[c] = outbound[c]
               /\ history'[c] = history[c]
               /\ pcm_data_chunks'[c] = pcm_data_chunks[c]
        /\ pc[c] = "closed" => wav'[c] = wav[c]

\* C5: however the connection ends (loop end, error close, exception or failed
\* send), the handler leaves the loop for the same teardown: out of the
\* registry, the buffer as it stood handed to the writer, then CLOSED; once the
\* teardown has begun no frame of the session is taken, processed or relayed.
C5_UniformTeardown == []C5_Teardown /\ [][C5_Step]_vars

\* two closed sessions with a file each, one ended by an exception in send,
\* the other by an error close
C5_Witness ==
    \E c, d \in Conn :
        /\ pc[c] = "closed" /\ Printed(c, "error occurred") /\ Len(wav[c]) = 1
        /\ pc[d] = "closed" /\ Printed(d, "disconnected with error")
        /\ Len(wav[d]) = 1

\* C6: a session that received no binary frame writes no file.
C6_NoAudioNoFile ==
    \A c \in Conn : BinaryData(inbound[c]) = <<>> => wav[c] = <<>>

\* a closed session that received text frames only
C6_Witness ==
    \E c \in Conn :
        /\ pc[c] = "closed"
        /\ inbound[c] # <<>>
        /\ wav[c] = <<>>
        /\ Printed(c, "no audio")

WriteFailed(c) == wav[c] # <<>> /\ ~wav[c][Len(wav[c])].ok

C7_Failed ==
    \A c \in Conn :
        WriteFailed(c) =>
            /\ pc[c] = "closed"
            /\ c \notin CONNECTIONS
            /\ Len(wav[c]) = 1
            /\ log[c][Len(log[c])] = "error writing"

C7_Step ==
    \A c \in Conn :
        ~WriteFailed(c) /\ WriteFailed(c)' =>
            \A d \in Conn \ {c} :
                /\ pc'[d] = pc[d]
                /\ (d \in CONNECTIONS') = (d \in CONNECTIONS)
                /\ pcm_data_chunks'[d] = pcm_data_chunks[d]
                /\ wav'[d] = wav[d]

\* C7: a failed write is printed and goes no further: the session is CLOSED and
\* out of the registry, the write is not attempted again, and the step that
\* fails leaves every other session as it was.
C7_WriteFailureContained == []C7_Failed /\ [][C7_Step]_vars

\* a session whose write failed while another session is still receiving
C7_Witness ==
    \E c, d \in Conn :
        /\ WriteFailed(c)
        /\ pc[d] = "recv" /\ d \in CONNECTIONS /\ inbound[d] # <<>>

\* summed durations of the run of silent chunks that ends the sequence
RECURSIVE TrailingSilence(_)
TrailingSilence(chunks) ==
    IF chunks = <<>> THEN 0
    ELSE IF ~is_silent_now(chunks[Len(chunks)]) THEN 0
    ELSE chunk_duration_seconds(chunks[Len(chunks)]) + TrailingSilence(Front(chunks))

\* C8: the accumulated silence is the summed duration of the maximal run of
\* consecutive silent chunks ending at the last chunk: 0 right after a
\* not-silent chunk, and still growing with every silent chunk while PAUSED.
C8_AccumulatedSilence ==
    \A c \in Conn :
        LET received == BinaryData(inbound[c])
        IN  /\ current_silence_accumulated_duration[c] = TrailingSilence(received)
            /\ \A i \in 1..Len(history[c]) :
                   /\ history[c][i].acc = TrailingSilence(SubSeq(received, 1, i))
                   /\ ~history[c][i].silent => history[c][i].acc = 0

\* speech, then silence that pauses the gate, then more silence
C8_Witness ==
    \E c \in Conn :
        /\ Len(history[c]) = 3
        /\ ~history[c][1].silent
        /\ ~history[c][2].relaying /\ history[c][2].acc >= MaxSilence
        /\ ~history[c][3].relaying /\ history[c][3].acc > history[c][2].acc
        /\ current_silence_accumulated_duration[c] = history[c][3].acc

\* the gate state before the i-th binary chunk of the session
RelayingBefore(c, i) == IF i = 1 THEN TRUE ELSE history[c][i - 1].relaying

C9_Transitions ==
    \A c \in Conn :
        /\ relaying_audio[c] =
               (IF history[c] = <<>> THEN TRUE
                ELSE history[c][Len(history[c])].relaying)
        /\ \A i \in 1..Len(history[c]) :
               LET h == history[c][i]
                   before == RelayingBefore(c, i)
               IN  /\ before /\ ~h.relaying => h.silent /\ h.acc >= MaxSilence
                   /\ ~before /\ ~h.silent => h.relaying
                   /\ ~before /\ h.relaying => ~h.silent
                   /\ h.edge = "pause" <=> before /\ ~h.relaying
                   /\ h.edge = "resume" <=> ~before /\ h.relaying

\* the session began with n silent half-second chunks
SilentHalves(c, n) ==
    /\ Len(history[c]) >= n
    /\ \A i \in 1..n :
           /\ history[c][i].silent
           /\ chunk_duration_seconds(history[c][i].chunk) = HalfSecond

LoudFourth(c) ==
    /\ SilentHalves(c, 3)
    /\ Len(history[c]) >= 4
    /\ ~history[c][4].silent

\* C9 as stated: the transitions, and three silent 0.5 s chunks are relayed,
\* relayed, withheld, a following loud chunk relayed with the accumulator at 0.
C9_RelayedRelayedWithheld ==
    /\ C9_Transitions
    /\ \A c \in Conn :
           /\ SilentHalves(c, 1) => history[c][1].relaying
           /\ SilentHalves(c, 2) => history[c][2].relaying
           /\ SilentHalves(c, 3) => ~history[c][3].relaying
           /\ LoudFourth(c) => history[c][4].relaying /\ history[c][4].acc = 0

\* C9 amended: the gate pauses only on a silent chunk that brings the
\* accumulated silence to MAX_SILENCE_SECONDS or more, resumes on the next
\* not-silent chunk, and nothing else changes it; three silent 0.5 s chunks are
\* relayed, withheld, withheld (the second one completes the second of
\* silence), and a following loud chunk is relayed with the accumulator at 0.
C9_RelayedWithheldWithheld ==
    /\ C9_Transitions
    /\ \A c \in Conn :
           /\ SilentHalves(c, 1) => history[c][1].relaying
           /\ SilentHalves(c, 2) =>
                  ~history[c][2].relaying /\ history[c][2].acc = MaxSilence
           /\ SilentHalves(c, 3) => ~history[c][3].relaying
           /\ LoudFourth(c) => history[c][4].relaying /\ history[c][4].acc = 0

\* the four chunks of the scenario processed, the first and the last sent
C9_Witness ==
    \E c \in Conn :
        /\ LoudFourth(c)
        /\ Len(history[c]) = 4
        /\ pc[c] = "recv"
        /\ outbound[c] = <<history[c][1].chunk, history[c][4].chunk>>
        /\ current_silence_accumulated_duration[c] = 0

\* C10: under every interleaving the registry holds exactly the sessions that
\* are ACTIVE: a handler is in it before it takes its first frame and out of it
\* before its write begins, and no handler's add or remove touches another's
\* membership.
C10_RegistryIsActive ==
    /\ CONNECTIONS = {c \in Conn : pc[c] \in Live}
    /\ \A c \in Conn :
           /\ inbound[c] # <<>> => pc[c] # "idle"
           /\ pc[c] = "closing" => wav[c] = <<>>

\* one session in teardown, its write not begun, another still registered
C10_Witness ==
    \E c, d \in Conn :
        /\ pc[c] = "closing" /\ inbound[c] # <<>>
        /\ pc[d] \in Live /\ inbound[d] # <<>>
        /\ CONNECTIONS = {d}


\* ---- output paths of sessions that share a peer or a clock reading ----
\* the peers a connection may come from: a client may reach two local
\* addresses of the server from one source port, and a closed connection's
\* port may be used again
Addresses == {PeerOf(c) : c \in Conn}

\* two readings of datetime.now() within one second, a microsecond apart
Stamps == {Epoch, [second |-> Epoch.second, micro |-> "000002"]}

NextFiles ==
    \E c \in Conn :
        \/ \E address \in Addresses, now \in Stamps : Connect(c, address, now)
        \/ \E chunk \in {QuietHalf, LoudHalf} : RecvBinary(c, chunk)
        \/ SendDone(c)
        \/ RecvEnd(c, "end")
        \/ \E ok \in BOOLEAN : WriteWav(c, ok)

SpecFiles == Init /\ [][NextFiles]_vars

SameSecond(c, d) ==
    /\ c # d
    /\ pc[c] # "idle"
    /\ pc[d] # "idle"
    /\ client_address[c] = client_address[d]
    /\ timestamp[c].second = timestamp[d].second

\* handler c wrote its file without an error
Saved(c) == pc[c] = "closed" /\ Len(wav[c]) = 1 /\ wav[c][1].ok

\* C11: two sessions from the same remote address created within the same
\* second have different output paths, and the file each of them saved
\* still holds its own audio
C11_DistinctPaths ==
    \A c, d \in Conn :
        SameSecond(c, d) =>
            /\ filename[c] # filename[d]
            /\ Saved(c) => /\ filename[c] \in DOMAIN fs
                           /\ fs[filename[c]] = wav[c][1].file


\* ---- the classifier on its own: one call on an arbitrary short chunk ----
MaxProbeLen == 4

\* byte values that make samples of 0, -1, 800 (0x0320), -32768 and more
ProbeBytes == {0, 3, 32, 128, 255}

Thresholds == {-1, 0, 1, SILENCE_THRESHOLD, 32768}

\* the byte strings of length n over ProbeBytes
RawOfLen(n) == [1..n -> ProbeBytes]

RawChunks == UNION {RawOfLen(n) : n \in 0..MaxProbeLen}

\* bytes(raw): the bytes value holding the listed byte values
RECURSIVE Bytes(_)
Bytes(raw) ==
    IF raw = <<>> THEN <<>>
    ELSE Concat(Repeat(raw[1], 1), Bytes(Tail(raw)))

InitClassify ==
    /\ pc = [c \in Conn |-> "idle"]
    /\ CONNECTIONS = {}
    /\ pcm_data_chunks = [c \in Conn |-> <<>>]
    /\ current_silence_accumulated_duration = [c \in Conn |-> 0]
    /\ relaying_audio = [c \in Conn |-> TRUE]
    /\ message = [c \in Conn |-> NoMessage]
    /\ inbound = [c \in Conn |-> <<>>]
    /\ outbound = [c \in Conn |-> <<>>]
    /\ history = [c \in Conn |-> <<>>]
    /\ wav = [c \in Conn |-> <<>>]
    /\ log = [c \in Conn |-> <<>>]
    /\ client_address = [c \in Conn |-> NoAddress]
    /\ timestamp = [c \in Conn |-> NoStamp]
    /\ filename = [c \in Conn |-> <<>>]
    /\ fs = <<>>
    /\ server = [state |-> "running", in_flight |-> {}]
    /\ probe \in {[raw |-> raw, threshold |-> limit,
                    called |-> FALSE, result |-> FALSE] :
                      raw \in RawChunks, limit \in Thresholds}

\* result = is_chunk_silent_max_abs(chunk, threshold)
Classify ==
    /\ ~probe.called
    /\ probe' = [probe EXCEPT !.called = TRUE, !.result =
                    is_chunk_silent_max_abs(Bytes(probe.raw), probe.threshold)]
    /\ UNCHANGED <<pc, CONNECTIONS, pcm_data_chunks,
                   current_silence_accumulated_duration, relaying_audio,
                   message, inbound, outbound, history, wav, log,
                   client_address, timestamp, filename, fs, server>>

NextClassify == Classify

SpecClassify == InitClassify /\ [][NextClassify]_vars

\* the samples of a chunk read directly from its byte values: the k-th
\* sample is the 16-bit two's complement number with low byte first
NumSamples(raw) == Len(raw) \div SAMPLE_WIDTH

Sample(raw, k) ==
    LET u == raw[2 * k - 1] + 256 * raw[2 * k]
    IN  u - 65536 * (u \div 32768)

Magnitudes(raw) == {Abs(Sample(raw, k)) : k \in 1..NumSamples(raw)}

Classifies == probe.called

\* C12: a chunk with at least one complete sample is silent exactly when
\* every sample's magnitude is strictly below the threshold, so a sample
\* whose magnitude equals the threshold makes the chunk not-silent
C12_SilentIffBelowThreshold ==
    (Classifies /\ NumSamples(probe.raw) >= 1) =>
        /\ probe.result = (\A a \in Magnitudes(probe.raw) : a < probe.threshold)
        /\ probe.threshold \in Magnitudes(probe.raw) => probe.result = FALSE

\* a negative sample whose magnitude equals the threshold, after a quieter one
C12_Witness ==
    /\ Classifies
    /\ probe.raw = <<0, 3, 0, 128>>
    /\ probe.threshold = 32768
    /\ probe.result = FALSE

AllZero(raw) == \A k \in 1..Len(raw) : raw[k] = 0

\* C13 as stated: an all-zero chunk of at least one sample is silent for
\* every non-negative threshold
C13_ZeroChunkSilent ==
    (Classifies /\ NumSamples(probe.raw) >= 1 /\ AllZero(probe.raw)
       /\ probe.threshold >= 0) => probe.result = TRUE

\* C13: an all-zero chunk of at least one sample is silent for every
\* positive threshold, and not-silent for the threshold 0
C13_ZeroChunkSilentAbovePositive ==
    (Classifies /\ NumSamples(probe.raw) >= 1 /\ AllZero(probe.raw)
       /\ probe.threshold >= 0) => probe.result = (probe.threshold > 0)

C13_Witness ==
    /\ Classifies
    /\ probe.raw = <<0, 0, 0, 0>>
    /\ probe.threshold = 1
    /\ probe.result = TRUE

\* the chunk without its trailing partial sample
WholeSamples(raw) == SubSeq(raw, 1, NumSamples(raw) * SAMPLE_WIDTH)

\* C14: for a non-negative threshold a chunk is classified as the chunk
\* without its trailing partial sample is, so a chunk with no complete
\* sample is silent
C14_PartialSampleIgnored ==
    (Classifies /\ probe.threshold >= 0) =>
        /\ probe.result =
               is_chunk_silent_max_abs(Bytes(WholeSamples(probe.raw)),
                                       probe.threshold)
        /\ NumSamples(probe.raw) = 0 => probe.result = TRUE


\* ---- the handler's gate and its isolation ----
\* the last frame taken from connection c is a text frame in this step
TextStep(c) ==
    /\ Len(inbound'[c]) = Len(inbound[c]) + 1
    /\ inbound'[c][Len(inbound'[c])].kind = "str"

C15_Step ==
    \A c \in Conn :
        TextStep(c) =>
            /\ pcm_data_chunks'[c] = pcm_data_chunks[c]
            /\ relaying_audio'[c] = relaying_audio[c]
            /\ current_silence_accumulated_duration'[c] =
                   current_silence_accumulated_duration[c]
            /\ history'[c] = history[c]
            /\ outbound' = outbound
            /\ message' = message
            /\ pc'[c] = "recv"

\* C15: a text frame, whatever the gate state, leaves the buffer, the gate
\* state and the accumulated silence as they were and sends nothing, so a
\* text frame between two silent chunks does not interrupt the silence run
C15_TextIsInert == [][C15_Step]_vars

\* half a second of silence, a text frame, half a second of silence: paused
C15_Witness ==
    \E c \in Conn :
        /\ Len(inbound[c]) = 3
        /\ inbound[c][1].kind = "bytes" /\ inbound[c][1].data = QuietHalf
        /\ inbound[c][2].kind = "str"
        /\ inbound[c][3].kind = "bytes" /\ inbound[c][3].data = QuietHalf
        /\ ~relaying_audio[c]
        /\ current_silence_accumulated_duration[c] = MaxSilence
        /\ outbound[c] = <<QuietHalf>>

\* handler c took a step
Acting(c) == pc'[c] # pc[c] \/ inbound'[c] # inbound[c]

C16_Step ==
    \A c, d \in Conn :
        (c # d /\ Acting(c)) =>
            /\ pcm_data_chunks'[d] = pcm_data_chunks[d]
            /\ relaying_audio'[d] = relaying_audio[d]
            /\ current_silence_accumulated_duration'[d] =
                   current_silence_accumulated_duration[d]
            /\ outbound'[d] = outbound[d]
            /\ message'[d] = message[d]
            /\ history'[d] = history[d]
            /\ pc'[d] = pc[d]

\* C16: no step of one handler changes another live session's buffer, gate
\* state or accumulated silence, or sends anything on another session's
\* connection, however the handlers interleave
C16_SessionsIsolated == [][C16_Step]_vars

\* two live sessions, one paused by silence, the other relaying speech
C16_Witness ==
    \E c, d \in Conn :
        /\ c # d
        /\ pc[c] = "recv" /\ pc[d] = "recv"
        /\ pcm_data_chunks[c] = <<ZeroSecond>>
        /\ ~relaying_audio[c]
        /\ outbound[c] = <<>>
        /\ pcm_data_chunks[d] = <<LoudHalf>>
        /\ relaying_audio[d]
        /\ outbound[d] = <<LoudHalf>>

\* the chunks whose accumulated silence after the update is below the limit
BelowLimit(c) ==
    LET due == SelectSeq(history[c], LAMBDA h : h.acc < MaxSilence)
    IN  [i \in 1..Len(due) |-> due[i].chunk]

Edges(c) ==
    LET turns == SelectSeq(history[c], LAMBDA h : h.edge # "none")
    IN  [i \in 1..Len(turns) |-> turns[i].edge]

\* the pause and resume lines the handler printed, in order
PrintedEdges(c) == SelectSeq(log[c], LAMBDA line : line \in {"pause", "resume"})

\* C19: the pause and resume edges of a session alternate, starting with a
\* pause; a pause is announced by a silent chunk and at most once per run of
\* silence; a resume is announced only by the first not-silent chunk after
\* a pause
C19_EdgesAlternate ==
    \A c \in Conn :
        /\ PrintedEdges(c) = Edges(c)
        /\ \A k \in 1..Len(Edges(c)) :
               Edges(c)[k] = (IF k % 2 = 1 THEN "pause" ELSE "resume")
        /\ \A i \in 1..Len(history[c]) :
               LET h == history[c][i]
               IN  /\ h.edge = "pause" => h.silent
                   /\ h.edge = "resume" =>
                          /\ ~h.silent
                          /\ \E j \in 1..(i - 1) :
                                 /\ history[c][j].edge = "pause"
                                 /\ \A k \in (j + 1)..(i - 1) :
                                        /\ history[c][k].silent
                                        /\ history[c][k].edge = "none"

\* pause, silence while paused, resume, pause again
C19_Witness ==
    \E c \in Conn :
        /\ Len(history[c]) = 4
        /\ history[c][2].silent /\ history[c][2].edge = "none"
        /\ Edges(c) = <<"pause", "resume", "pause">>
        /\ PrintedEdges(c) = Edges(c)


\* ---- shutdown of the server, lines 156-170 ----
\* the handlers between their entry and their finally block
InFlight == {c \in Conn : pc[c] \in Live}

\* KeyboardInterrupt reaches asyncio.run(main()): the serve context is left
\* and the pending tasks are cancelled; no further connection is accepted
Interrupt ==
    /\ server.state = "running"
    /\ server' = [state |-> "stopping", in_flight |-> InFlight]
    /\ UNCHANGED <<pc, CONNECTIONS, pcm_data_chunks,
                   current_silence_accumulated_duration, relaying_audio,
                   message, inbound, outbound, history, wav, log,
                   client_address, timestamp, filename, fs, probe>>

\* the await a handler is suspended at (line 90 or 121) raises
\* CancelledError, which no except clause of lines 130-135 catches
Cancel(c) ==
    /\ server.state = "stopping"
    /\ pc[c] \in Live
    /\ Leave(c, "CancelledError")

\* variant: the process exits without waiting for the handlers
Exit_abrupt ==
    /\ server.state = "stopping"
    /\ server' = [server EXCEPT !.state = "exited"]
    /\ UNCHANGED <<pc, CONNECTIONS, pcm_data_chunks,
                   current_silence_accumulated_duration, relaying_audio,
                   message, inbound, outbound, history, wav, log,
                   client_address, timestamp, filename, fs, probe>>

\* asyncio.run returns once every task has finished; lines 169-170 print
\* and the process exits
Exit ==
    /\ server.state = "stopping"
    /\ \A c \in Conn : pc[c] \in {"idle", "closed"}
    /\ server' = [server EXCEPT !.state = "exited"]
    /\ UNCHANGED <<pc, CONNECTIONS, pcm_data_chunks,
                   current_silence_accumulated_duration, relaying_audio,
                   message, inbound, outbound, history, wav, log,
                   client_address, timestamp, filename, fs, probe>>

NextShutdown ==
    \/ Interrupt
    \/ Exit
    \/ \E c \in Conn :
           \/ Connect(c, PeerOf(c), Epoch)
           \/ \E chunk \in Chunks : RecvBinary(c, chunk)
           \/ SendDone(c)
           \/ RecvEnd(c, "end")
           \/ Cancel(c)
           \/ \E ok \in BOOLEAN : WriteWav(c, ok)

SpecShutdown == Init /\ [][NextShutdown]_vars

\* C17: when the process exits after an interrupt, every session that was
\* in flight at the interrupt has gone through its teardown, and each of
\* them with a non-empty buffer has had that buffer written, whole and
\* once, before the exit
C17_FlushedBeforeExit ==
    server.state = "exited" =>
        \A c \in server.in_flight :
            /\ pc[c] = "closed"
            /\ c \notin CONNECTIONS
            /\ pcm_data_chunks[c] # <<>> =>
                   /\ Len(wav[c]) = 1
                   /\ wav[c][1].file = WavFile(pcm_data_chunks[c])

\* an exit after an interrupt that found one session waiting for a frame,
\* its gate paused, and one in the middle of a send; both were saved
C17_Witness ==
    /\ server.state = "exited"
    /\ \E c, d \in server.in_flight :
           /\ c # d
           /\ pcm_data_chunks[c] = <<ZeroSecond>>
           /\ outbound[c] = <<>>
           /\ pcm_data_chunks[d] = <<LoudHalf>>
           /\ outbound[d] = <<>>
           /\ Saved(c) /\ Saved(d)
           /\ fs[filename[c]] = WavFile(pcm_data_chunks[c])
           /\ fs[filename[d]] = WavFile(pcm_data_chunks[d])


\* ---- termination ----
\* The event loop resumes a handler whose await has completed: a pending
\* send returns or raises, the finally block runs to its end.  Every
\* connection ends: a handler waiting for a frame is eventually told so.
Fairness ==
    \A c \in Conn :
        /\ WF_vars(SendDone(c) \/ \E cause \in SendCauses : SendRaise(c, cause))
        /\ WF_vars(\E cause \in RecvCauses : RecvEnd(c, cause))
        /\ WF_vars(\E ok \in BOOLEAN : WriteWav(c, ok))

\* the frames delivered, over all connections, in the runs checked for
\* termination
MaxFairFrames == 2

\* line 90 yields a binary frame, while the transport still has one
DeliverBinary(c, chunk) ==
    /\ Delivered < MaxFairFrames
    /\ RecvBinary(c, chunk)

\* line 90 yields a text frame, while the transport still has one
DeliverText(c, text) ==
    /\ Delivered < MaxFairFrames
    /\ RecvText(c, text)

NextFair ==
    \E c \in Conn :
        \/ Connect(c, PeerOf(c), Epoch)
        \/ \E chunk \in {LoudHalf, ZeroSecond} : DeliverBinary(c, chunk)
        \/ \E text \in Texts : DeliverText(c, text)
        \/ SendDone(c)
        \/ \E cause \in RecvCauses : RecvEnd(c, cause)
        \/ \E cause \in SendCauses : SendRaise(c, cause)
        \/ \E ok \in BOOLEAN : WriteWav(c, ok)

FairSpec == Init /\ [][NextFair]_vars /\ Fairness

AllClosed == \A c \in Conn : pc[c] \in {"idle", "closed"}

\* no handler is registered, and a session was written once if it received
\* a binary frame and not at all otherwise
C20_Settled ==
    AllClosed =>
        /\ CONNECTIONS = {}
        /\ \A c \in Conn :
               Len(wav[c]) = (IF BinaryData(inbound[c]) # <<>> THEN 1 ELSE 0)

\* C20: with connections that end and handlers that are scheduled, every
\* session reaches CLOSED, and whenever all sessions are CLOSED the
\* registry is empty and every session that received a binary frame has had
\* its one write attempt
C20_EverySessionCloses ==
    /\ []C20_Settled
    /\ \A c \in Conn : (pc[c] # "idle") ~> (pc[c] = "closed")

\* both sessions closed, one after audio and one after a text frame only
C20_Witness ==
    \E c, d \in Conn :
        /\ c # d
        /\ AllClosed
        /\ pc[c] = "closed" /\ pc[d] = "closed"
        /\ CONNECTIONS = {}
        /\ Len(wav[c]) = 1
        /\ inbound[d] # <<>> /\ wav[d] = <<>>

====
